---- MODULE Spec2Model ----
(***************************************************************************)
(* A model of src/avx512-common-qsort.h: the vectorised partition kernels,  *)
(* the quicksort / quickselect drivers and the NaN pre/post passes.         *)
(*                                                                          *)
(* Arrays are functions over 0 .. n-1 (the code's 0-based indices).  A SIMD *)
(* register is a sequence of numlanes values.  arrsize_t arithmetic is      *)
(* modular (ArrsizeMod); every memory access is checked against the array's *)
(* domain and an access outside it raises the fault flag of the kernel or   *)
(* the driver that made it.                                                 *)
(***************************************************************************)
EXTENDS Integers, Sequences, FiniteSets, TLC

VARIABLES
    arr,        \* the (key) array the entry point was handed
    indexes,    \* the parallel index array of the key-index partition
    entry,      \* [arr, indexes] as they were when the call was made
    pc,         \* position of the running call
    stack,      \* pending qsort_ / qselect_ invocations, innermost first
    part,       \* locals of the partition kernel in progress
    call,       \* arguments of the running entry point
    trace       \* observations of the run: the entry budget, faults, kernel steps

vars == <<arr, indexes, entry, pc, stack, part, call, trace>>

-----------------------------------------------------------------------------
(* Bounds of the model *)

\* longest memory block handed to a partition kernel
MaxLen == 8
\* longest array handed to avx512_qsort / avx512_qselect / avx512_partial_qsort
MaxN == 7
MaxF == 6
MaxUnroll == 2
MaxPivotLen == 40

(* Parameters of the modelled build *)

\* width of arrsize_t in bits (size_t, scaled down)
ArrsizeBits == 6
\* lanes of one register (vtype::numlanes, scaled down)
numlanes == 2

\* vtype::partition_unroll_factor
partition_unroll_factor == 1
\* vtype::network_sort_threshold: the longest subrange the bitonic network
\* takes, a power of two and at least two unrolled groups of registers
network_sort_threshold == 4

ArrsizeMod == 2 ^ ArrsizeBits
SIZE_MAX == ArrsizeMod - 1
Wrap(x) == x % ArrsizeMod

\* vtype::type_max() / vtype::type_min(): the extremes of the element type
\* (scaled down); for a floating-point type they are +infinity and -infinity
type_max == 2
type_min == 0
Values == type_min .. type_max
\* a NaN: unordered with every value; never an element of an integer array
NaN == type_max + 1

-----------------------------------------------------------------------------
(* Scalar and lane-wise primitives *)

is_a_nan(elem) == elem = NaN

\* a < b
comparison_func(a, b) == a # NaN /\ b # NaN /\ a < b

\* mutant of ge: a strict comparison, which routes elements equal to the
\* pivot to the left side
ge_strict(a, b) == a # NaN /\ b # NaN /\ a > b

\* vtype::ge on one lane: a >= b
ge(a, b) == a # NaN /\ b # NaN /\ a >= b

\* std::min(a, b, comp) and std::max(a, b, comp)
std_min(a, b) == IF comparison_func(b, a) THEN b ELSE a
std_max(a, b) == IF comparison_func(a, b) THEN b ELSE a

set1(x) == [i \in 1 .. numlanes |-> x]
vmin(v, w) == [i \in 1 .. numlanes |-> std_min(w[i], v[i])]
vmax(v, w) == [i \in 1 .. numlanes |-> std_max(w[i], v[i])]

RECURSIVE reducemin(_)
reducemin(v) ==
    IF Len(v) = 1 THEN v[1] ELSE std_min(v[1], reducemin(Tail(v)))

RECURSIVE reducemax(_)
reducemax(v) ==
    IF Len(v) = 1 THEN v[1] ELSE std_max(v[1], reducemax(Tail(v)))

InBounds(a, lo, n) == \A i \in lo .. lo + n - 1 : i \in DOMAIN a

\* vtype::loadu(arr + pos): numlanes consecutive cells
loadu(a, pos) ==
    [i \in 1 .. numlanes |-> IF pos + i - 1 \in DOMAIN a THEN a[pos + i - 1] ELSE 0]

\* mutant of compressstoreu: a store of the full register width, the lanes
\* the mask selects first and type_min in the cells after them
compressstoreu_wide(a, pos, vals) ==
    [i \in DOMAIN a |->
        IF i >= pos /\ i < pos + Len(vals) THEN vals[i - pos + 1]
        ELSE IF i >= pos /\ i < pos + numlanes THEN type_min
        ELSE a[i]]

\* vtype::mask_compressstoreu(arr + pos, mask, vec) where vals are the lanes
\* of vec the mask selects, in lane order: Len(vals) consecutive cells
compressstoreu(a, pos, vals) ==
    [i \in DOMAIN a |->
        IF i >= pos /\ i < pos + Len(vals) THEN vals[i - pos + 1] ELSE a[i]]

swap(a, i, j) == [a EXCEPT ![i] = a[j], ![j] = a[i]]

Lanes_ge(vec, pivot) == SelectSeq(vec, LAMBDA x : ge(x, pivot))
Lanes_lt(vec, pivot) == SelectSeq(vec, LAMBDA x : ~ge(x, pivot))

-----------------------------------------------------------------------------
(* Kernel state: the array, the kernel's locals, the cells it has accessed  *)
(* and whether an access fell outside the array.                            *)

NoVec == << >>

KernelInit(a, left, right, pivot, smallest, biggest) ==
    [arr |-> a, left |-> left, right |-> right, pivot |-> pivot,
     smallest |-> smallest, biggest |-> biggest,
     min_vec |-> NoVec, max_vec |-> NoVec,
     vec_left |-> NoVec, vec_right |-> NoVec,
     l_store |-> 0, unpartitioned |-> 0,
     buffer |-> << >>, leftStore |-> 0,
     touched |-> {}, fault |-> FALSE, wrapped |-> FALSE,
     at |-> "entry", ret |-> 0]

Touch(s, lo, n) ==
    [s EXCEPT !.touched = @ \cup (lo .. lo + n - 1),
              !.fault = @ \/ ~InBounds(s.arr, lo, n)]

\* mutant of partition_vec: unpartitioned lowered by the number of lanes
\* stored on the right instead of by numlanes
partition_vec_by_amount(s, curr_vec) ==
    LET lo == Lanes_lt(curr_vec, s.pivot)
        hi == Lanes_ge(curr_vec, s.pivot)
        amount_ge_pivot == Len(hi)
        left2 == Wrap(s.l_store + (numlanes - amount_ge_pivot))
        dst == Wrap(left2 + s.unpartitioned)
        s1 == Touch(s, s.l_store, Len(lo))
        s2 == Touch(s1, dst, Len(hi))
    IN  IF s.at = "fault" THEN s
        ELSE IF s2.fault THEN [s2 EXCEPT !.at = "fault"]
        ELSE [s2 EXCEPT
                !.arr = compressstoreu(compressstoreu(s.arr, s.l_store, lo), dst, hi),
                !.l_store = left2,
                !.unpartitioned = Wrap(s.unpartitioned - amount_ge_pivot),
                !.wrapped = @ \/ s.unpartitioned < amount_ge_pivot,
                !.min_vec = vmin(curr_vec, s.min_vec),
                !.max_vec = vmax(curr_vec, s.max_vec)]

\* mutant of partition_vec: the second store made at left + unpartitioned
\* before left is advanced
partition_vec_early(s, curr_vec) ==
    LET lo == Lanes_lt(curr_vec, s.pivot)
        hi == Lanes_ge(curr_vec, s.pivot)
        amount_ge_pivot == Len(hi)
        left2 == Wrap(s.l_store + (numlanes - amount_ge_pivot))
        dst == Wrap(s.l_store + s.unpartitioned)
        s1 == Touch(s, s.l_store, Len(lo))
        s2 == Touch(s1, dst, Len(hi))
    IN  IF s.at = "fault" THEN s
        ELSE IF s2.fault THEN [s2 EXCEPT !.at = "fault"]
        ELSE [s2 EXCEPT
                !.arr = compressstoreu(compressstoreu(s.arr, s.l_store, lo), dst, hi),
                !.l_store = left2,
                !.unpartitioned = Wrap(s.unpartitioned - numlanes),
                !.wrapped = @ \/ s.unpartitioned < numlanes,
                !.min_vec = vmin(curr_vec, s.min_vec),
                !.max_vec = vmax(curr_vec, s.max_vec)]

\* partition_vec (single array): one register through the two compressed
\* stores, then the cursor and min/max updates
partition_vec(s, curr_vec) ==
    LET lo == Lanes_lt(curr_vec, s.pivot)
        hi == Lanes_ge(curr_vec, s.pivot)
        amount_ge_pivot == Len(hi)
        left2 == Wrap(s.l_store + (numlanes - amount_ge_pivot))
        dst == Wrap(left2 + s.unpartitioned)
        s1 == Touch(s, s.l_store, Len(lo))
        s2 == Touch(s1, dst, Len(hi))
    IN  IF s.at = "fault" THEN s
        ELSE IF s2.fault THEN [s2 EXCEPT !.at = "fault"]
        ELSE [s2 EXCEPT
                !.arr = compressstoreu(compressstoreu(s.arr, s.l_store, lo), dst, hi),
                !.l_store = left2,
                !.unpartitioned = Wrap(s.unpartitioned - numlanes),
                !.wrapped = @ \/ s.unpartitioned < numlanes,
                !.min_vec = vmin(curr_vec, s.min_vec),
                !.max_vec = vmax(curr_vec, s.max_vec)]

\* the scalar loop that makes the length divisible by numlanes
RECURSIVE align(_, _)
align(s, i) ==
    IF i <= 0 THEN s
    ELSE LET s1 == Touch(s, s.left, 1)
         IN  IF s1.fault THEN [s1 EXCEPT !.at = "fault"]
             ELSE LET x == s.arr[s.left]
                      s2 == [s1 EXCEPT !.smallest = std_min(s.smallest, x),
                                       !.biggest = std_max(s.biggest, x)]
                  IN  IF ~comparison_func(x, s.pivot)
                      THEN LET r == Wrap(s.right - 1)
                               s3 == Touch(s2, r, 1)
                           IN  IF s3.fault THEN [s3 EXCEPT !.at = "fault"]
                               ELSE align([s3 EXCEPT !.arr = swap(s.arr, s.left, r),
                                                     !.right = r], i - 1)
                      ELSE align([s2 EXCEPT !.left = Wrap(s.left + 1)], i - 1)

\* partition_avx512 (single array) from its entry to the head of the main
\* loop: the scalar loop, the two early returns, the loads of vec_left and
\* vec_right
partition_enter(s0) ==
    LET s == align(s0, Wrap(s0.right - s0.left) % numlanes)
    IN  IF s.at = "fault" THEN s
        ELSE IF s.left = s.right
        THEN [s EXCEPT !.at = "done", !.ret = s.left]
        ELSE LET sv == [s EXCEPT !.min_vec = set1(s.smallest),
                                 !.max_vec = set1(s.biggest)]
             IN  IF Wrap(s.right - s.left) = numlanes
                 THEN LET s1 == Touch(sv, s.left, numlanes)
                          s2 == partition_vec(
                                    [s1 EXCEPT !.unpartitioned =
                                                   Wrap(s.right - s.left - numlanes),
                                               !.l_store = s.left],
                                    loadu(s.arr, s.left))
                      IN  IF s1.fault THEN [s1 EXCEPT !.at = "fault"]
                          ELSE IF s2.at = "fault" THEN s2
                          ELSE [s2 EXCEPT !.at = "done", !.ret = s2.l_store]
                 ELSE LET s1 == Touch(Touch(sv, s.left, numlanes),
                                      Wrap(s.right - numlanes), numlanes)
                      IN  IF s1.fault THEN [s1 EXCEPT !.at = "fault"]
                          ELSE [s1 EXCEPT
                                  !.vec_left = loadu(s.arr, s.left),
                                  !.vec_right = loadu(s.arr, Wrap(s.right - numlanes)),
                                  !.unpartitioned = Wrap(s.right - s.left - numlanes),
                                  !.l_store = s.left,
                                  !.left = Wrap(s.left + numlanes),
                                  !.right = Wrap(s.right - numlanes),
                                  !.at = "loop"]

\* mutant of load_from_right: the side with more free slots chosen
load_from_right_more_free(s) ==
    Wrap(Wrap(s.l_store + s.unpartitioned + numlanes) - s.right)
        > Wrap(s.left - s.l_store)

\* the side the main loop loads from next
load_from_right(s) ==
    Wrap(Wrap(s.l_store + s.unpartitioned + numlanes) - s.right)
        < Wrap(s.left - s.l_store)

\* one iteration of the main loop (right - left != 0)
partition_iterate(s) ==
    IF load_from_right(s)
    THEN LET r == Wrap(s.right - numlanes)
             s1 == Touch(s, r, numlanes)
         IN  IF s1.fault THEN [s1 EXCEPT !.at = "fault"]
             ELSE partition_vec([s1 EXCEPT !.right = r], loadu(s.arr, r))
    ELSE LET s1 == Touch(s, s.left, numlanes)
         IN  IF s1.fault THEN [s1 EXCEPT !.at = "fault"]
             ELSE partition_vec([s1 EXCEPT !.left = Wrap(s.left + numlanes)],
                                loadu(s.arr, s.left))

\* after the main loop: vec_left and vec_right, then the reductions
partition_flush(s) ==
    LET s2 == partition_vec(partition_vec(s, s.vec_left), s.vec_right)
    IN  IF s2.at = "fault" THEN s2
        ELSE [s2 EXCEPT !.smallest = reducemin(s2.min_vec),
                        !.biggest = reducemax(s2.max_vec),
                        !.at = "done", !.ret = s2.l_store]

partition_step(s) ==
    IF s.at = "entry" THEN partition_enter(s)
    ELSE IF s.at = "loop" /\ Wrap(s.right - s.left) # 0 THEN partition_iterate(s)
    ELSE IF s.at = "loop" THEN partition_flush(s)
    ELSE s

RECURSIVE partition_run(_)
partition_run(s) ==
    IF s.at \in {"done", "fault"} THEN s ELSE partition_run(partition_step(s))

\* partition_avx512(arr, left, right, pivot, &smallest, &biggest)
partition_avx512(a, left, right, pivot, smallest, biggest) ==
    partition_run(KernelInit(a, left, right, pivot, smallest, biggest))

-----------------------------------------------------------------------------
(* partition_avx512_unrolled: num_unroll registers per iteration.  vec_left *)
(* and vec_right hold num_unroll registers each.                            *)

\* registers loaded from num consecutive register-sized blocks at pos
loadu_n(a, pos, num) == [ii \in 1 .. num |-> loadu(a, pos + numlanes * (ii - 1))]

RECURSIVE partition_vecs(_, _)
partition_vecs(s, vecs) ==
    IF vecs = << >> THEN s
    ELSE partition_vecs(partition_vec(s, Head(vecs)), Tail(vecs))

\* the loop over the vecsToPartition leftover registers: lanes below the
\* pivot go to arr + leftStore, the others to the stack buffer
RECURSIVE buffer_loop(_, _, _)
buffer_loop(s, i, vecsToPartition) ==
    IF i >= vecsToPartition \/ s.at = "fault" THEN s
    ELSE LET src == Wrap(s.left + i * numlanes)
             curr_vec == loadu(s.arr, src)
             lo == Lanes_lt(curr_vec, s.pivot)
             hi == Lanes_ge(curr_vec, s.pivot)
             s1 == Touch(Touch(s, src, numlanes), s.leftStore, Len(lo))
         IN  IF s1.fault THEN [s1 EXCEPT !.at = "fault"]
             ELSE buffer_loop(
                    [s1 EXCEPT !.arr = compressstoreu(s.arr, s.leftStore, lo),
                               !.buffer = @ \o hi,
                               !.min_vec = vmin(curr_vec, s.min_vec),
                               !.max_vec = vmax(curr_vec, s.max_vec),
                               !.leftStore = Wrap(@ + numlanes - Len(hi))],
                    i + 1, vecsToPartition)

\* std::memcpy(arr + dst, arr + src, n): the n source cells are read, then
\* written to the destination (the ranges are disjoint or the same range)
memcpy_within(a, dst, src, n) ==
    [i \in DOMAIN a |->
        IF i >= dst /\ i < dst + n /\ (src + (i - dst)) \in DOMAIN a
        THEN a[src + (i - dst)] ELSE a[i]]

\* from the entry to the head of the main loop
unrolled_enter(s0, num_unroll) ==
    LET s == align(s0, Wrap(s0.right - s0.left) % numlanes)
    IN  IF s.at = "fault" THEN s
        ELSE IF s.left = s.right
        THEN [s EXCEPT !.at = "done", !.ret = s.left]
        ELSE
        LET vecsToPartition == (Wrap(s.right - s.left) \div numlanes) % num_unroll
            sb == buffer_loop([s EXCEPT !.min_vec = set1(s.smallest),
                                        !.max_vec = set1(s.biggest),
                                        !.buffer = << >>,
                                        !.leftStore = s.left],
                              0, vecsToPartition)
            bufferStored == Len(sb.buffer)
            from == Wrap(sb.right - bufferStored)
            sm == Touch(Touch(sb, sb.leftStore, bufferStored), from, bufferStored)
            copied == compressstoreu(
                          memcpy_within(sb.arr, sb.leftStore, from, bufferStored),
                          from, sb.buffer)
            left2 == Wrap(sb.left + vecsToPartition * numlanes - bufferStored)
            right2 == from
            sc == [sm EXCEPT !.arr = copied,
                             !.smallest = reducemin(sb.min_vec),
                             !.biggest = reducemax(sb.max_vec),
                             !.left = left2, !.right = right2]
            rl == Wrap(right2 - numlanes * num_unroll)
            sl == Touch(Touch(sc, left2, numlanes * num_unroll),
                        rl, numlanes * num_unroll)
        IN  IF sb.at = "fault" THEN sb
            ELSE IF sm.fault THEN [sm EXCEPT !.at = "fault"]
            ELSE IF left2 = right2
            THEN [sc EXCEPT !.at = "done", !.ret = left2]
            ELSE IF sl.fault THEN [sl EXCEPT !.at = "fault"]
            ELSE [sl EXCEPT
                    !.vec_left = loadu_n(copied, left2, num_unroll),
                    !.vec_right = loadu_n(copied, rl, num_unroll),
                    !.unpartitioned = Wrap(right2 - left2 - numlanes),
                    !.l_store = left2,
                    !.left = Wrap(left2 + num_unroll * numlanes),
                    !.right = rl,
                    !.at = "loop"]

\* one iteration of the main loop: num_unroll registers from one side
unrolled_iterate(s, num_unroll) ==
    IF load_from_right(s)
    THEN LET r == Wrap(s.right - num_unroll * numlanes)
             s1 == Touch(s, r, num_unroll * numlanes)
         IN  IF s1.fault THEN [s1 EXCEPT !.at = "fault"]
             ELSE partition_vecs([s1 EXCEPT !.right = r],
                                 loadu_n(s.arr, r, num_unroll))
    ELSE LET s1 == Touch(s, s.left, num_unroll * numlanes)
         IN  IF s1.fault THEN [s1 EXCEPT !.at = "fault"]
             ELSE partition_vecs(
                    [s1 EXCEPT !.left = Wrap(s.left + num_unroll * numlanes)],
                    loadu_n(s.arr, s.left, num_unroll))

\* after the main loop: the vec_left registers, the vec_right registers, the
\* reductions
unrolled_flush(s) ==
    LET s2 == partition_vecs(partition_vecs(s, s.vec_left), s.vec_right)
    IN  IF s2.at = "fault" THEN s2
        ELSE [s2 EXCEPT !.smallest = reducemin(s2.min_vec),
                        !.biggest = reducemax(s2.max_vec),
                        !.at = "done", !.ret = s2.l_store]

unrolled_step(s, num_unroll) ==
    IF s.at = "entry" THEN unrolled_enter(s, num_unroll)
    ELSE IF s.at = "loop" /\ Wrap(s.right - s.left) # 0
    THEN unrolled_iterate(s, num_unroll)
    ELSE IF s.at = "loop" THEN unrolled_flush(s)
    ELSE s

RECURSIVE unrolled_run(_, _)
unrolled_run(s, num_unroll) ==
    IF s.at \in {"done", "fault"} THEN s
    ELSE unrolled_run(unrolled_step(s, num_unroll), num_unroll)

\* partition_avx512_unrolled<vtype, num_unroll>(arr, left, right, pivot,
\* &smallest, &biggest)
partition_avx512_unrolled(a, left, right, pivot, smallest, biggest, num_unroll) ==
    IF num_unroll = 0
    THEN partition_avx512(a, left, right, pivot, smallest, biggest)
    ELSE unrolled_run(KernelInit(a, left, right, pivot, smallest, biggest),
                      num_unroll)

-----------------------------------------------------------------------------
(* The key-index kernel: partition_vec and partition_avx512 on two parallel *)
(* arrays.  Its state holds both arrays and the kernel's locals.            *)

KVInit(keys, idx, left, right, pivot, smallest, biggest) ==
    [keys |-> keys, indexes |-> idx, left |-> left, right |-> right,
     pivot |-> pivot, smallest |-> smallest, biggest |-> biggest,
     min_vec |-> NoVec, max_vec |-> NoVec,
     keys_vec_left |-> NoVec, keys_vec_right |-> NoVec,
     indexes_vec_left |-> NoVec, indexes_vec_right |-> NoVec,
     l_store |-> 0, r_store |-> 0, amount_gt_pivot |-> 0,
     fault |-> FALSE, at |-> "entry", ret |-> 0]

\* the lanes of vec whose mask bit is want, in lane order
mask_lanes(vec, mask, want) ==
    LET sel == SelectSeq([i \in 1 .. numlanes |-> i], LAMBDA i : mask[i] = want)
    IN  [j \in 1 .. Len(sel) |-> vec[sel[j]]]

\* mutant of partition_vec_kv: the index lanes stored in reverse lane order
partition_vec_kv_reversed(s, left, right, keys_vec, indexes_vec) ==
    LET gt_mask == [i \in 1 .. numlanes |-> ge(keys_vec[i], s.pivot)]
        amount_gt_pivot == Len(mask_lanes(keys_vec, gt_mask, TRUE))
        dst == Wrap(right - amount_gt_pivot)
        rev(v) == [j \in 1 .. Len(v) |-> v[Len(v) + 1 - j]]
    IN  IF s.at = "fault" THEN s
        ELSE IF \/ ~InBounds(s.keys, left, numlanes - amount_gt_pivot)
                \/ ~InBounds(s.keys, dst, amount_gt_pivot)
        THEN [s EXCEPT !.fault = TRUE, !.at = "fault"]
        ELSE [s EXCEPT
                !.keys = compressstoreu(
                            compressstoreu(s.keys, left,
                                           mask_lanes(keys_vec, gt_mask, FALSE)),
                            dst, mask_lanes(keys_vec, gt_mask, TRUE)),
                !.indexes = compressstoreu(
                            compressstoreu(s.indexes, left,
                                           rev(mask_lanes(indexes_vec, gt_mask, FALSE))),
                            dst, rev(mask_lanes(indexes_vec, gt_mask, TRUE))),
                !.min_vec = vmin(keys_vec, s.min_vec),
                !.max_vec = vmax(keys_vec, s.max_vec),
                !.amount_gt_pivot = amount_gt_pivot]

\* partition_vec (keys, indexes): one register of keys and the register of
\* their indexes through the four compressed stores, all under the mask of
\* the keys
partition_vec_kv(s, left, right, keys_vec, indexes_vec) ==
    LET gt_mask == [i \in 1 .. numlanes |-> ge(keys_vec[i], s.pivot)]
        amount_gt_pivot == Len(mask_lanes(keys_vec, gt_mask, TRUE))
        dst == Wrap(right - amount_gt_pivot)
    IN  IF s.at = "fault" THEN s
        ELSE IF \/ ~InBounds(s.keys, left, numlanes - amount_gt_pivot)
                \/ ~InBounds(s.keys, dst, amount_gt_pivot)
        THEN [s EXCEPT !.fault = TRUE, !.at = "fault"]
        ELSE [s EXCEPT
                !.keys = compressstoreu(
                            compressstoreu(s.keys, left,
                                           mask_lanes(keys_vec, gt_mask, FALSE)),
                            dst, mask_lanes(keys_vec, gt_mask, TRUE)),
                !.indexes = compressstoreu(
                            compressstoreu(s.indexes, left,
                                           mask_lanes(indexes_vec, gt_mask, FALSE)),
                            dst, mask_lanes(indexes_vec, gt_mask, TRUE)),
                !.min_vec = vmin(keys_vec, s.min_vec),
                !.max_vec = vmax(keys_vec, s.max_vec),
                !.amount_gt_pivot = amount_gt_pivot]

\* the scalar loop of the key-index partition_avx512: keys[left] > pivot
\* sends the pair to the right end, any other key stays on the left
RECURSIVE kv_align(_, _)
kv_align(s, i) ==
    IF i <= 0 THEN s
    ELSE IF s.left \notin DOMAIN s.keys
    THEN [s EXCEPT !.fault = TRUE, !.at = "fault"]
    ELSE LET x == s.keys[s.left]
             s1 == [s EXCEPT !.smallest = std_min(s.smallest, x),
                             !.biggest = std_max(s.biggest, x)]
             r == Wrap(s.right - 1)
         IN  IF comparison_func(s.pivot, x)
             THEN IF r \notin DOMAIN s.keys
                  THEN [s1 EXCEPT !.fault = TRUE, !.at = "fault"]
                  ELSE kv_align([s1 EXCEPT !.keys = swap(s.keys, s.left, r),
                                           !.indexes = swap(s.indexes, s.left, r),
                                           !.right = r], i - 1)
             ELSE kv_align([s1 EXCEPT !.left = Wrap(s.left + 1)], i - 1)

\* partition_avx512 (keys, indexes) from its entry to the head of the main
\* loop
kv_enter(s0) ==
    LET s == kv_align(s0, Wrap(s0.right - s0.left) % numlanes)
        sv == [s EXCEPT !.min_vec = set1(s.smallest), !.max_vec = set1(s.biggest)]
        rpos == Wrap(s.right - numlanes)
    IN  IF s.at = "fault" THEN s
        ELSE IF s.left = s.right
        THEN [s EXCEPT !.at = "done", !.ret = s.left]
        ELSE IF Wrap(s.right - s.left) = numlanes
        THEN IF ~InBounds(s.keys, s.left, numlanes)
             THEN [s EXCEPT !.fault = TRUE, !.at = "fault"]
             ELSE LET s2 == partition_vec_kv(sv, s.left, Wrap(s.left + numlanes),
                                             loadu(s.keys, s.left),
                                             loadu(s.indexes, s.left))
                  IN  IF s2.at = "fault" THEN s2
                      ELSE [s2 EXCEPT
                              !.smallest = reducemin(s2.min_vec),
                              !.biggest = reducemax(s2.max_vec),
                              !.at = "done",
                              !.ret = Wrap(s.left + (numlanes - s2.amount_gt_pivot))]
        ELSE IF ~InBounds(s.keys, s.left, numlanes) \/ ~InBounds(s.keys, rpos, numlanes)
             THEN [s EXCEPT !.fault = TRUE, !.at = "fault"]
             ELSE [sv EXCEPT
                     !.keys_vec_left = loadu(s.keys, s.left),
                     !.keys_vec_right = loadu(s.keys, rpos),
                     !.indexes_vec_left = loadu(s.indexes, s.left),
                     !.indexes_vec_right = loadu(s.indexes, rpos),
                     !.r_store = rpos,
                     !.l_store = s.left,
                     !.left = Wrap(s.left + numlanes),
                     !.right = rpos,
                     !.at = "loop"]

\* the cursors after a partition_vec call of the main loop
kv_advance(s) ==
    IF s.at = "fault" THEN s
    ELSE [s EXCEPT !.r_store = Wrap(s.r_store - s.amount_gt_pivot),
                   !.l_store = Wrap(s.l_store + (numlanes - s.amount_gt_pivot))]

\* one iteration of the main loop (right - left != 0)
kv_iterate(s) ==
    LET from_right == Wrap(Wrap(s.r_store + numlanes) - s.right)
                          < Wrap(s.left - s.l_store)
        pos == IF from_right THEN Wrap(s.right - numlanes) ELSE s.left
        s1 == IF from_right THEN [s EXCEPT !.right = pos]
              ELSE [s EXCEPT !.left = Wrap(s.left + numlanes)]
    IN  IF ~InBounds(s.keys, pos, numlanes)
        THEN [s EXCEPT !.fault = TRUE, !.at = "fault"]
        ELSE kv_advance(partition_vec_kv(s1, s.l_store, Wrap(s.r_store + numlanes),
                                         loadu(s.keys, pos), loadu(s.indexes, pos)))

\* after the main loop: the registers loaded first, then the reductions
kv_flush(s) ==
    LET s1 == partition_vec_kv(s, s.l_store, Wrap(s.r_store + numlanes),
                               s.keys_vec_left, s.indexes_vec_left)
        l1 == Wrap(s.l_store + (numlanes - s1.amount_gt_pivot))
        s2 == partition_vec_kv(s1, l1, Wrap(l1 + numlanes),
                               s.keys_vec_right, s.indexes_vec_right)
        l2 == Wrap(l1 + (numlanes - s2.amount_gt_pivot))
    IN  IF s2.at = "fault" THEN s2
        ELSE [s2 EXCEPT !.l_store = l2,
                        !.smallest = reducemin(s2.min_vec),
                        !.biggest = reducemax(s2.max_vec),
                        !.at = "done", !.ret = l2]

-----------------------------------------------------------------------------
(* Multisets and order *)

Count(a, lo, hi, v) == Cardinality({i \in lo .. hi - 1 : a[i] = v})

\* the cells [lo, hi) of a and b hold the same multiset
SameMultiset(a, b, lo, hi) ==
    \A v \in Values \cup {NaN} : Count(a, lo, hi, v) = Count(b, lo, hi, v)

SameOutside(a, b, lo, hi) ==
    \A i \in DOMAIN a : (i < lo \/ i >= hi) => a[i] = b[i]

ArraysOfLen(n, S) == [0 .. n - 1 -> S]
EmptyArr == [i \in {} |-> 0]

-----------------------------------------------------------------------------
(* Scalar sorts, pivots, the depth budget *)

LessIn(a, lo, hi, v) == Cardinality({j \in lo .. hi - 1 : a[j] < v})

\* the cells [lo, hi) of a put in non-decreasing order, the others kept
SortRange(a, lo, hi) ==
    [i \in DOMAIN a |->
        IF i >= lo /\ i < hi
        THEN CHOOSE v \in Values \cup {NaN} :
                /\ LessIn(a, lo, hi, v) <= i - lo
                /\ i - lo < LessIn(a, lo, hi, v) + Count(a, lo, hi, v)
        ELSE a[i]]

\* std::sort(arr + first, arr + last, comparison_func)
std_sort(a, first, last) == SortRange(a, first, last)

\* sort_n<vtype, maxN>(arr + first, N): the bitonic network of N <= maxN cells
sort_n(a, first, N) == SortRange(a, first, first + N)

\* vtype::sort_vec: one register in ascending order
sort_vec(vec) ==
    LET a == [i \in 0 .. Len(vec) - 1 |-> vec[i + 1]]
        sorted == SortRange(a, 0, Len(vec))
    IN  [i \in 1 .. Len(vec) |-> sorted[i - 1]]

RECURSIVE floor_log2(_)
floor_log2(n) == IF n <= 1 THEN 0 ELSE 1 + floor_log2(n \div 2)

\* (arrsize_t)log2(n) for n >= 1: the double nearest to SIZE_MAX is
\* 2^ArrsizeBits, every smaller n converts exactly
log2_cast(n) == IF n = SIZE_MAX THEN ArrsizeBits ELSE floor_log2(n)

\* 2 * (arrsize_t)log2(n): for n = 0 the conversion of -infinity to
\* arrsize_t is undefined, the budget is then any of these
depth_budgets(n) ==
    IF n = 0 THEN {0, 2, SIZE_MAX - 1} ELSE {Wrap(2 * log2_cast(n))}

\* get_pivot_scalar: numlanes samples from left with stride delta
get_pivot_scalar(a, left, right) ==
    LET delta == Wrap(right - left) \div numlanes
        samples == [i \in 1 .. numlanes |-> a[left + (i - 1) * delta]]
    IN  sort_vec(samples)[(numlanes \div 2) + 1]

PivotSamples(a, left, size, first, last) ==
    [i \in 1 .. (last - first + 1) |-> a[left + (first + i - 1) * size]]

\* the 32 samples of get_pivot_16bit: left + i*size, i = 0..31
vec_arr_16bit(a, left, right) ==
    PivotSamples(a, left, Wrap(right - left) \div 32, 0, 31)

\* median of 32: element 16 of the sorted samples
get_pivot_16bit(a, left, right) == sort_vec(vec_arr_16bit(a, left, right))[16 + 1]

\* the 16 samples of get_pivot_32bit: left + i*size, i = 1..16
vec_arr_32bit(a, left, right) ==
    PivotSamples(a, left, Wrap(right - left) \div 16, 1, 16)

\* median of 16: element 8 of the sorted samples
get_pivot_32bit(a, left, right) == sort_vec(vec_arr_32bit(a, left, right))[8 + 1]

\* the 8 samples of get_pivot_64bit: left + i*size, i = 1..8
rand_vec_64bit(a, left, right) ==
    PivotSamples(a, left, Wrap(right - left) \div 8, 1, 8)

\* mutant of get_pivot_64bit: element 3 of the sorted samples, the lower
\* middle
get_pivot_64bit_lower(a, left, right) ==
    sort_vec(rand_vec_64bit(a, left, right))[3 + 1]

\* median of 8: element 4 of the sorted samples
get_pivot_64bit(a, left, right) == sort_vec(rand_vec_64bit(a, left, right))[4 + 1]

\* get_pivot for a vtype of the given number of lanes
get_pivot_lanes(lanes, a, left, right) ==
    IF lanes = 8 THEN get_pivot_64bit(a, left, right)
    ELSE IF lanes = 16 THEN get_pivot_32bit(a, left, right)
    ELSE IF lanes = 32 THEN get_pivot_16bit(a, left, right)
    ELSE get_pivot_scalar(a, left, right)

get_pivot(a, left, right) == get_pivot_lanes(numlanes, a, left, right)

\* the samples get_pivot takes for a vtype of the given number of lanes
pivot_samples(lanes, a, left, right) ==
    IF lanes = 8 THEN rand_vec_64bit(a, left, right)
    ELSE IF lanes = 16 THEN vec_arr_32bit(a, left, right)
    ELSE vec_arr_16bit(a, left, right)

\* the values get_pivot_blocks may return: the elements of arr[left..right]
get_pivot_blocks(a, left, right) == {a[i] : i \in left .. right}

-----------------------------------------------------------------------------
(* NaN passes *)

\* replace_nan_with_inf: register by register (the last one under a partial
\* load mask), every NaN lane is counted and overwritten with type_max
RECURSIVE replace_nan_loop(_, _, _, _)
replace_nan_loop(a, ii, size, nan_count) ==
    IF ii >= size THEN [arr |-> a, nan_count |-> nan_count]
    ELSE LET lanes == IF size - ii < numlanes THEN size - ii ELSE numlanes
             nanmask == {i \in ii .. ii + lanes - 1 : is_a_nan(a[i])}
         IN  replace_nan_loop(
                [i \in DOMAIN a |-> IF i \in nanmask THEN type_max ELSE a[i]],
                ii + numlanes, size, nan_count + Cardinality(nanmask))

replace_nan_with_inf(a, size) == replace_nan_loop(a, 0, size, 0)

\* mutant of replace_inf_with_nan: the NaNs written to the first nan_count
\* cells
replace_inf_with_nan_head(a, size, nan_count) ==
    [i \in DOMAIN a |-> IF i < nan_count THEN NaN ELSE a[i]]

\* replace_inf_with_nan: the last nan_count cells, from size - 1 downwards
RECURSIVE replace_inf_with_nan(_, _, _)
replace_inf_with_nan(a, size, nan_count) ==
    IF nan_count <= 0 THEN a
    ELSE replace_inf_with_nan([a EXCEPT ![Wrap(size - 1)] = NaN],
                              Wrap(size - 1), nan_count - 1)

\* move_nans_to_end_of_array: the two-pointer loop, then the cell at ii
RECURSIVE move_nans_loop(_, _, _, _)
move_nans_loop(a, ii, jj, count) ==
    IF ii < jj
    THEN IF ii \notin DOMAIN a \/ jj \notin DOMAIN a
         THEN [arr |-> a, ii |-> ii, count |-> count, fault |-> TRUE]
         ELSE IF is_a_nan(a[ii])
         THEN move_nans_loop(swap(a, ii, jj), ii, Wrap(jj - 1), count + 1)
         ELSE move_nans_loop(a, ii + 1, jj, count)
    ELSE [arr |-> a, ii |-> ii, count |-> count, fault |-> FALSE]

move_nans_to_end_of_array(a, size) ==
    LET r == move_nans_loop(a, 0, Wrap(size - 1), 0)
        bad == r.fault \/ r.ii \notin DOMAIN a
        count == IF ~bad /\ is_a_nan(r.arr[r.ii]) THEN r.count + 1 ELSE r.count
    IN  [arr |-> r.arr, ret |-> Wrap(size - count - 1), fault |-> bad]

-----------------------------------------------------------------------------
(* The drivers.  A frame is one invocation of qsort_ or qselect_ that has   *)
(* been called and has not run yet; depth counts the invocations from the   *)
(* entry point's.                                                           *)

Frame(pos, left, right, max_iters, depth) ==
    [pos |-> pos, left |-> left, right |-> right, max_iters |-> max_iters,
     depth |-> depth]

NoCall == [op |-> "none", k |-> 0, n |-> 0, hasnan |-> FALSE, isfloat |-> FALSE,
           arrsize |-> 0, nan_count |-> 0, left |-> 0, right |-> 0, pivot |-> 0,
           num_unroll |-> 0, lanes |-> 0]
NoTrace == [budget |-> 0, oob |-> FALSE, steps |-> 0]
NoPart == KernelInit(EmptyArr, 0, 0, 0, 0, 0)

\* an access outside the array: the run ends here
Fault ==
    /\ pc' = "fault"
    /\ trace' = [trace EXCEPT !.oob = TRUE]
    /\ UNCHANGED <<arr, indexes, entry, stack, part, call>>

\* the body of avx512_qsort(arr, arrsize)
BeginQsort(arrsize) ==
    IF arrsize > 1
    THEN IF call.isfloat /\ ~InBounds(arr, 0, arrsize)
         THEN Fault
         ELSE \E r \in {IF call.isfloat THEN replace_nan_with_inf(arr, arrsize)
                         ELSE [arr |-> arr, nan_count |-> 0]},
                 budget \in depth_budgets(arrsize) :
                    /\ arr' = r.arr
                    /\ call' = [call EXCEPT !.arrsize = arrsize,
                                            !.nan_count = r.nan_count]
                    /\ stack' = <<Frame(0, 0, Wrap(arrsize - 1), budget, 1)>>
                    /\ trace' = [trace EXCEPT !.budget = budget]
                    /\ pc' = "qsort_"
                    /\ UNCHANGED <<indexes, entry, part>>
    ELSE /\ pc' = "done"
         /\ UNCHANGED <<arr, indexes, entry, stack, part, call, trace>>

\* the body of avx512_qselect(arr, k, arrsize, hasnan)
BeginQselect(k, arrsize, hasnan) ==
    \E moved \in {IF call.isfloat /\ hasnan
                   THEN move_nans_to_end_of_array(arr, arrsize)
                   ELSE [arr |-> arr, ret |-> Wrap(arrsize - 1), fault |-> FALSE]} :
        IF moved.fault THEN Fault
        ELSE IF moved.ret >= k
        THEN \E budget \in depth_budgets(moved.ret) :
                /\ arr' = moved.arr
                /\ stack' = <<Frame(k, 0, moved.ret, budget, 1)>>
                /\ trace' = [trace EXCEPT !.budget = budget]
                /\ pc' = "qselect_"
                /\ UNCHANGED <<indexes, entry, part, call>>
        ELSE /\ arr' = moved.arr
             /\ pc' = "qselect_"
             /\ UNCHANGED <<indexes, entry, stack, part, call, trace>>

Top == Head(stack)
RangeInArr(left, right) == left <= right /\ left \in DOMAIN arr /\ right \in DOMAIN arr

\* std::sort(arr + left, arr + right + 1) of the invocation on top
RunStdSort ==
    LET first == Top.left
        last == Wrap(Top.right + 1)
    IN  IF first <= last /\ InBounds(arr, first, last - first)
        THEN /\ arr' = std_sort(arr, first, last)
             /\ stack' = Tail(stack)
             /\ UNCHANGED <<indexes, entry, pc, part, call, trace>>
        ELSE Fault

\* sort_n(arr + left, (int32_t)(right + 1 - left)) of the invocation on top
RunSortN ==
    LET N == Wrap(Top.right + 1 - Top.left)
    IN  IF InBounds(arr, Top.left, N)
        THEN /\ arr' = sort_n(arr, Top.left, N)
             /\ stack' = Tail(stack)
             /\ UNCHANGED <<indexes, entry, pc, part, call, trace>>
        ELSE Fault

Partitioned(pivot) ==
    partition_avx512_unrolled(arr, Top.left, Wrap(Top.right + 1), pivot,
                              type_max, type_min, partition_unroll_factor)

Recurse(r, calls) ==
    /\ arr' = r.arr
    /\ stack' = calls \o Tail(stack)
    /\ UNCHANGED <<indexes, entry, pc, part, call, trace>>

\* qsort_: max_iters <= 0
QsortStdSort ==
    /\ pc = "qsort_" /\ stack # << >>
    /\ Top.max_iters <= 0
    /\ RunStdSort

\* qsort_: the base case
QsortSortN ==
    /\ pc = "qsort_" /\ stack # << >>
    /\ Top.max_iters > 0
    /\ Wrap(Top.right + 1 - Top.left) <= network_sort_threshold
    /\ RunSortN

\* mutant of qsort_calls: both calls made without the guards
qsort_calls_unguarded(f, pivot, r) ==
    <<Frame(0, f.left, Wrap(r.ret - 1), Wrap(f.max_iters - 1), f.depth + 1),
      Frame(0, r.ret, f.right, Wrap(f.max_iters - 1), f.depth + 1)>>

\* mutant of qsort_calls: the right call guarded by the left call's test
qsort_calls_same_guard(f, pivot, r) ==
    (IF pivot # r.smallest
     THEN <<Frame(0, f.left, Wrap(r.ret - 1), Wrap(f.max_iters - 1),
                  f.depth + 1)>>
     ELSE << >>)
    \o
    (IF pivot # r.smallest
     THEN <<Frame(0, r.ret, f.right, Wrap(f.max_iters - 1),
                  f.depth + 1)>>
     ELSE << >>)

\* the invocations qsort_ makes after a partition, the left one first
qsort_calls(f, pivot, r) ==
    (IF pivot # r.smallest
     THEN <<Frame(0, f.left, Wrap(r.ret - 1), Wrap(f.max_iters - 1),
                  f.depth + 1)>>
     ELSE << >>)
    \o
    (IF pivot # r.biggest
     THEN <<Frame(0, r.ret, f.right, Wrap(f.max_iters - 1),
                  f.depth + 1)>>
     ELSE << >>)

\* qsort_: pivot, partition, the recursive calls
QsortPartition ==
    /\ pc = "qsort_" /\ stack # << >>
    /\ Top.max_iters > 0
    /\ Wrap(Top.right + 1 - Top.left) > network_sort_threshold
    /\ IF ~RangeInArr(Top.left, Top.right) THEN Fault
       ELSE \E pivot \in get_pivot_blocks(arr, Top.left, Top.right) :
              \E r \in {Partitioned(pivot)} :
                 IF r.at = "fault" THEN Fault
                 ELSE Recurse(r, qsort_calls(Top, pivot, r))

\* avx512_qsort after qsort_ has returned
QsortReturn ==
    /\ pc = "qsort_" /\ stack = << >>
    /\ arr' = IF call.isfloat
              THEN replace_inf_with_nan(arr, call.arrsize, call.nan_count)
              ELSE arr
    /\ pc' = "done"
    /\ UNCHANGED <<indexes, entry, stack, part, call, trace>>

\* qselect_: max_iters <= 0
QselectStdSort ==
    /\ pc = "qselect_" /\ stack # << >>
    /\ Top.max_iters <= 0
    /\ RunStdSort

\* qselect_: the base case
QselectSortN ==
    /\ pc = "qselect_" /\ stack # << >>
    /\ Top.max_iters > 0
    /\ Wrap(Top.right + 1 - Top.left) <= network_sort_threshold
    /\ RunSortN

\* mutant of qselect_calls: the target index compared with <= and >
qselect_calls_off_by_one(f, pivot, r) ==
    IF pivot # r.smallest /\ f.pos <= r.ret
    THEN <<Frame(f.pos, f.left, Wrap(r.ret - 1), Wrap(f.max_iters - 1),
                 f.depth + 1)>>
    ELSE IF pivot # r.biggest /\ f.pos > r.ret
    THEN <<Frame(f.pos, r.ret, f.right, Wrap(f.max_iters - 1),
                 f.depth + 1)>>
    ELSE << >>

\* mutant of qselect_calls: the budget handed on without the decrement
qselect_calls_same_budget(f, pivot, r) ==
    IF pivot # r.smallest /\ f.pos < r.ret
    THEN <<Frame(f.pos, f.left, Wrap(r.ret - 1), f.max_iters, f.depth + 1)>>
    ELSE IF pivot # r.biggest /\ f.pos >= r.ret
    THEN <<Frame(f.pos, r.ret, f.right, f.max_iters, f.depth + 1)>>
    ELSE << >>

\* the invocation qselect_ makes after a partition, if any
qselect_calls(f, pivot, r) ==
    IF pivot # r.smallest /\ f.pos < r.ret
    THEN <<Frame(f.pos, f.left, Wrap(r.ret - 1), Wrap(f.max_iters - 1),
                 f.depth + 1)>>
    ELSE IF pivot # r.biggest /\ f.pos >= r.ret
    THEN <<Frame(f.pos, r.ret, f.right, Wrap(f.max_iters - 1),
                 f.depth + 1)>>
    ELSE << >>

\* qselect_: pivot, partition, the recursive call
QselectPartition ==
    /\ pc = "qselect_" /\ stack # << >>
    /\ Top.max_iters > 0
    /\ Wrap(Top.right + 1 - Top.left) > network_sort_threshold
    /\ IF ~RangeInArr(Top.left, Top.right) THEN Fault
       ELSE \E pivot \in {get_pivot(arr, Top.left, Top.right)} :
              \E r \in {Partitioned(pivot)} :
                 IF r.at = "fault" THEN Fault
                 ELSE Recurse(r, qselect_calls(Top, pivot, r))

\* after qselect_ has returned: avx512_qselect returns, and
\* avx512_partial_qsort goes on to avx512_qsort(arr, k - 1)
QselectReturn ==
    /\ pc = "qselect_" /\ stack = << >>
    /\ IF call.op = "avx512_partial_qsort"
       THEN BeginQsort(Wrap(call.k - 1))
       ELSE /\ pc' = "done"
            /\ UNCHANGED <<arr, indexes, entry, stack, part, call, trace>>

\* mutant of PartialEnter: k handed on to avx512_qselect as it is
PartialEnter_k ==
    /\ pc = "call" /\ call.op = "avx512_partial_qsort"
    /\ BeginQselect(call.k, call.n, call.hasnan)

\* avx512_qsort(arr, arrsize)
SortEnter ==
    /\ pc = "call" /\ call.op = "avx512_qsort"
    /\ BeginQsort(call.n)

\* avx512_qselect(arr, k, arrsize, hasnan)
SelectEnter ==
    /\ pc = "call" /\ call.op = "avx512_qselect"
    /\ BeginQselect(call.k, call.n, call.hasnan)

\* avx512_partial_qsort(arr, k, arrsize, hasnan)
PartialEnter ==
    /\ pc = "call" /\ call.op = "avx512_partial_qsort"
    /\ BeginQselect(Wrap(call.k - 1), call.n, call.hasnan)

InitCall(op, a, k, isfloat, hasnan) ==
    /\ arr = a
    /\ indexes = EmptyArr
    /\ entry = [arr |-> a, indexes |-> EmptyArr]
    /\ pc = "call"
    /\ stack = << >>
    /\ part = NoPart
    /\ call = [NoCall EXCEPT !.op = op, !.k = k, !.n = Cardinality(DOMAIN a),
                             !.isfloat = isfloat, !.hasnan = hasnan]
    /\ trace = NoTrace

(* SpecDrivers: avx512_qsort on every integer array of at most MaxN cells,  *)
(* and avx512_qselect on every such array of at least one cell with every   *)
(* k below its length.                                                      *)
InitSort ==
    \E n \in 0 .. MaxN : \E a \in ArraysOfLen(n, Values) :
        InitCall("avx512_qsort", a, 0, FALSE, FALSE)

InitSelect ==
    \E n \in 1 .. MaxN : \E a \in ArraysOfLen(n, Values), k \in 0 .. n - 1 :
        InitCall("avx512_qselect", a, k, FALSE, FALSE)

InitDrivers == InitSort \/ InitSelect

NextSort == SortEnter \/ QsortStdSort \/ QsortSortN \/ QsortPartition \/ QsortReturn

NextSelect ==
    SelectEnter \/ QselectStdSort \/ QselectSortN \/ QselectPartition \/ QselectReturn

NextDrivers == NextSort \/ NextSelect

SpecDrivers == InitDrivers /\ [][NextDrivers]_vars

(* SpecPartial: avx512_partial_qsort on every integer array of at most MaxN *)
(* cells with every k from 0 to its length.                                 *)
InitPartial ==
    \E n \in 0 .. MaxN : \E a \in ArraysOfLen(n, Values), k \in 0 .. n :
        InitCall("avx512_partial_qsort", a, k, FALSE, FALSE)

NextPartial ==
    \/ PartialEnter
    \/ QselectStdSort \/ QselectSortN \/ QselectPartition \/ QselectReturn
    \/ QsortStdSort \/ QsortSortN \/ QsortPartition \/ QsortReturn

SpecPartial == InitPartial /\ [][NextPartial]_vars

(* SpecFloat: avx512_qsort on every floating-point array of at most MaxF    *)
(* cells, each a value, +infinity (type_max) or NaN, and                    *)
(* avx512_qselect(arr, k, arrsize, hasnan = true) on every such array of at *)
(* least one cell with every k below its length.                            *)
FloatValues == Values \cup {NaN}

InitFloatSort ==
    \E n \in 0 .. MaxF : \E a \in ArraysOfLen(n, FloatValues) :
        InitCall("avx512_qsort", a, 0, TRUE, FALSE)

InitFloatSelect ==
    \E n \in 1 .. MaxF : \E a \in ArraysOfLen(n, FloatValues), k \in 0 .. n - 1 :
        InitCall("avx512_qselect", a, k, TRUE, TRUE)

InitFloat == InitFloatSort \/ InitFloatSelect

SpecFloat == InitFloat /\ [][NextDrivers]_vars

-----------------------------------------------------------------------------
(* SpecPart: one call of the single-array partition_avx512 on a subrange    *)
(* [left, right) of a block of MaxLen cells, one action per kernel step.    *)

InitPart ==
    /\ \E a \in ArraysOfLen(MaxLen, Values), left \in 0 .. 1, pivot \in Values :
         \E right \in left .. MaxLen :
            /\ arr = a
            /\ entry = [arr |-> a, indexes |-> EmptyArr]
            /\ call = [NoCall EXCEPT !.op = "partition_avx512", !.left = left,
                                     !.right = right, !.pivot = pivot]
            /\ part = KernelInit(a, left, right, pivot, type_max, type_min)
    /\ indexes = EmptyArr
    /\ pc = "entry"
    /\ stack = << >>
    /\ trace = NoTrace

PartStep(after) ==
    \E next \in {after} :
        /\ part' = next
        /\ arr' = next.arr
        /\ pc' = next.at
        /\ trace' = [trace EXCEPT !.steps = @ + 1, !.oob = next.fault]
        /\ UNCHANGED <<indexes, entry, stack, call>>

PartEnter ==
    /\ call.op = "partition_avx512" /\ pc = "entry"
    /\ PartStep(partition_enter(part))

PartIterate ==
    /\ call.op = "partition_avx512" /\ pc = "loop"
    /\ Wrap(part.right - part.left) # 0
    /\ PartStep(partition_iterate(part))

PartFlush ==
    /\ call.op = "partition_avx512" /\ pc = "loop"
    /\ Wrap(part.right - part.left) = 0
    /\ PartStep(partition_flush(part))

NextPart == PartEnter \/ PartIterate \/ PartFlush

SpecPart == InitPart /\ [][NextPart]_vars

-----------------------------------------------------------------------------
(* SpecKV: one call of the key-index partition_avx512 on a subrange         *)
(* [left, right) of two blocks of MaxLen cells, the indexes all different,  *)
(* one action per kernel step.                                              *)

InitKV ==
    /\ \E a \in ArraysOfLen(MaxLen, Values), left \in 0 .. 1, pivot \in Values :
         \E right \in left .. MaxLen :
            /\ arr = a
            /\ indexes = [i \in 0 .. MaxLen - 1 |-> i]
            /\ entry = [arr |-> a, indexes |-> [i \in 0 .. MaxLen - 1 |-> i]]
            /\ call = [NoCall EXCEPT !.op = "partition_avx512_kv", !.left = left,
                                     !.right = right, !.pivot = pivot]
            /\ part = KVInit(a, [i \in 0 .. MaxLen - 1 |-> i], left, right, pivot,
                             type_max, type_min)
    /\ pc = "entry"
    /\ stack = << >>
    /\ trace = NoTrace

KVStep(after) ==
    \E next \in {after} :
        /\ part' = next
        /\ arr' = next.keys
        /\ indexes' = next.indexes
        /\ pc' = next.at
        /\ trace' = [trace EXCEPT !.steps = @ + 1, !.oob = next.fault]
        /\ UNCHANGED <<entry, stack, call>>

KVEnter ==
    /\ call.op = "partition_avx512_kv" /\ pc = "entry"
    /\ KVStep(kv_enter(part))

KVIterate ==
    /\ call.op = "partition_avx512_kv" /\ pc = "loop"
    /\ Wrap(part.right - part.left) # 0
    /\ KVStep(kv_iterate(part))

KVFlush ==
    /\ call.op = "partition_avx512_kv" /\ pc = "loop"
    /\ Wrap(part.right - part.left) = 0
    /\ KVStep(kv_flush(part))

NextKV == KVEnter \/ KVIterate \/ KVFlush

SpecKV == InitKV /\ [][NextKV]_vars

-----------------------------------------------------------------------------
(* SpecUnrolled: one call of partition_avx512_unrolled<vtype, num_unroll>   *)
(* on a subrange [left, right) of a block of MaxLen cells, for every        *)
(* num_unroll from 1 to MaxUnroll, one action per kernel step.              *)

InitUnrolled ==
    /\ \E a \in ArraysOfLen(MaxLen, Values), left \in 0 .. 1, pivot \in Values,
          num_unroll \in 1 .. MaxUnroll :
         \E right \in left .. MaxLen :
            /\ arr = a
            /\ entry = [arr |-> a, indexes |-> EmptyArr]
            /\ call = [NoCall EXCEPT !.op = "partition_avx512_unrolled",
                                     !.left = left, !.right = right,
                                     !.pivot = pivot, !.num_unroll = num_unroll]
            /\ part = KernelInit(a, left, right, pivot, type_max, type_min)
    /\ indexes = EmptyArr
    /\ pc = "entry"
    /\ stack = << >>
    /\ trace = NoTrace

UnrolledEnter ==
    /\ call.op = "partition_avx512_unrolled" /\ pc = "entry"
    /\ PartStep(unrolled_enter(part, call.num_unroll))

UnrolledIterate ==
    /\ call.op = "partition_avx512_unrolled" /\ pc = "loop"
    /\ Wrap(part.right - part.left) # 0
    /\ PartStep(unrolled_iterate(part, call.num_unroll))

UnrolledFlush ==
    /\ call.op = "partition_avx512_unrolled" /\ pc = "loop"
    /\ Wrap(part.right - part.left) = 0
    /\ PartStep(unrolled_flush(part))

NextUnrolled == UnrolledEnter \/ UnrolledIterate \/ UnrolledFlush

SpecUnrolled == InitUnrolled /\ [][NextUnrolled]_vars

-----------------------------------------------------------------------------
(* SpecPivot: one call of get_pivot for a vtype of 8, 16 or 32 lanes on a   *)
(* subrange [left, right], right - left >= lanes, of an array of            *)
(* MaxPivotLen cells.  The arrays are runs of equal cells of length d whose *)
(* values step by m from c.  The call leaves the positions it sampled and   *)
(* the pivot it returned.                                                   *)

Positions == [i \in 0 .. MaxPivotLen - 1 |-> i]

InitPivot ==
    /\ \E lanes \in {8, 16, 32}, left \in 0 .. 1, d \in 1 .. 3, m \in 1 .. 2,
          c \in Values :
         \E right \in left + lanes .. MaxPivotLen - 1 :
            /\ arr = [i \in 0 .. MaxPivotLen - 1 |->
                         ((i \div d) * m + c) % (type_max + 1)]
            /\ call = [NoCall EXCEPT !.op = "get_pivot", !.left = left,
                                     !.right = right, !.lanes = lanes]
    /\ entry = [arr |-> arr, indexes |-> EmptyArr]
    /\ indexes = EmptyArr
    /\ part = [samples |-> << >>, pivot |-> 0]
    /\ pc = "call"
    /\ stack = << >>
    /\ trace = NoTrace

PivotCall ==
    /\ call.op = "get_pivot" /\ pc = "call"
    /\ part' = [samples |-> pivot_samples(call.lanes, Positions,
                                          call.left, call.right),
                pivot |-> get_pivot_lanes(call.lanes, arr, call.left, call.right)]
    /\ pc' = "done"
    /\ UNCHANGED <<arr, indexes, entry, stack, call, trace>>

NextPivot == PivotCall

SpecPivot == InitPivot /\ [][NextPivot]_vars

-----------------------------------------------------------------------------
\* C10: the single-array partition_avx512 returns p with left <= p <= right,
\* every element of [left, p) < P and every element of [p, right) >= P
\* (elements equal to P on the right side), for every subrange and pivot.
PartitionContract ==
    (call.op = "partition_avx512" /\ pc = "done") =>
        /\ ~part.fault
        /\ call.left <= part.ret /\ part.ret <= call.right
        /\ \A i \in call.left .. part.ret - 1 : arr[i] < call.pivot
        /\ \A i \in part.ret .. call.right - 1 : arr[i] >= call.pivot

PartitionNeverFaults == call.op = "partition_avx512" => pc # "fault"

C10_Theorem == PartitionContract /\ PartitionNeverFaults

\* a finished call that went through the scalar loop, the main loop and the
\* final flush, with elements below, equal to and above the pivot
C10_Witness ==
    /\ call.op = "partition_avx512" /\ pc = "done"
    /\ call.right - call.left = MaxLen
    /\ trace.steps >= 4
    /\ \E i, j, k \in call.left .. call.right - 1 :
         /\ entry.arr[i] < call.pivot
         /\ entry.arr[j] = call.pivot
         /\ entry.arr[k] > call.pivot
    /\ part.ret > call.left /\ part.ret < call.right

-----------------------------------------------------------------------------
Len0(a) == Cardinality(DOMAIN a)

NonDecreasing(a, lo, hi) == \A i \in lo .. hi - 2 : a[i] <= a[i + 1]

\* C1: after avx512_qsort(A, N) on an integer array, A is in non-decreasing
\* order and is a permutation of the entry array (any pivot of the subrange,
\* sort_n and std::sort sorting their subrange).
C1_Theorem ==
    (call.op = "avx512_qsort" /\ ~call.isfloat) =>
        /\ pc # "fault"
        /\ pc = "done" =>
             /\ NonDecreasing(arr, 0, call.n)
             /\ SameMultiset(arr, entry.arr, 0, call.n)

\* a finished sort of an unsorted array that was partitioned with leftover
\* registers in the buffer, recursed on both sides and holds all values
C1_Witness ==
    /\ call.op = "avx512_qsort" /\ ~call.isfloat /\ pc = "done"
    /\ call.n = MaxN
    /\ ~NonDecreasing(entry.arr, 0, call.n)
    /\ \A v \in Values : \E i \in DOMAIN arr : arr[i] = v

\* v is the k-th smallest (k from 0) of the first n cells of a
OrderStatistic(a, n, k, v) ==
    /\ LessIn(a, 0, n, v) <= k
    /\ k < LessIn(a, 0, n, v) + Count(a, 0, n, v)

\* C2: after avx512_qselect(A, k, N) on an integer array, N >= 1, k < N,
\* A[k] is the k-th order statistic of the entry array, A[0..k) <= A[k] and
\* A[k+1..N) >= A[k].
C2_Theorem ==
    (call.op = "avx512_qselect" /\ ~call.isfloat) =>
        /\ pc # "fault"
        /\ pc = "done" =>
             /\ OrderStatistic(entry.arr, call.n, call.k, arr[call.k])
             /\ \A i \in 0 .. call.k - 1 : arr[i] <= arr[call.k]
             /\ \A i \in call.k + 1 .. call.n - 1 : arr[i] >= arr[call.k]

\* a finished selection in an array of MaxN cells that holds all values, whose
\* entry array had a different element at k
C2_Witness ==
    /\ call.op = "avx512_qselect" /\ ~call.isfloat /\ pc = "done"
    /\ call.n = MaxN /\ call.k > 0 /\ call.k < call.n - 1
    /\ \A v \in Values : \E i \in DOMAIN arr : arr[i] = v
    /\ entry.arr[call.k] # arr[call.k]
    /\ arr # SortRange(entry.arr, 0, call.n)

\* C3: after avx512_partial_qsort(A, k, N) on an integer array, 1 <= k <= N,
\* A[0..k) is the first k elements of the sorted entry array.
C3_Theorem ==
    (call.op = "avx512_partial_qsort" /\ ~call.isfloat /\ call.k >= 1) =>
        /\ pc # "fault"
        /\ pc = "done" =>
             /\ NonDecreasing(arr, 0, call.k)
             /\ \A i \in 0 .. call.k - 1 :
                   OrderStatistic(entry.arr, call.n, i, arr[i])

\* a finished partial sort of a proper prefix of more than one cell, of an
\* array of MaxN cells whose prefix held other elements at entry
C3_Witness ==
    /\ call.op = "avx512_partial_qsort" /\ ~call.isfloat /\ pc = "done"
    /\ call.n = MaxN /\ call.k > 2 /\ call.k < call.n
    /\ \E i \in 0 .. call.k - 1 : entry.arr[i] # arr[i]
    /\ arr[0] < arr[call.k - 1]

\* C4: avx512_partial_qsort(A, 0, N) returns with A unchanged, makes no
\* access outside A[0..N), and the k-1 it hands on never denotes a nonempty
\* range: no invocation of the drivers is made on a nonempty range.
C4_Claim ==
    (call.op = "avx512_partial_qsort" /\ call.k = 0) =>
        /\ ~trace.oob
        /\ pc # "fault"
        /\ arr = entry.arr
        /\ \A i \in DOMAIN stack : Wrap(stack[i].right + 1 - stack[i].left) = 0

NaNCount(a, n) == Count(a, 0, n, NaN)

\* C5: after avx512_qsort(A, N) on a floating-point array (NaN a value of
\* its own, +infinity allowed), the number of NaN cells is the number at
\* entry, the NaNs occupy the last positions, the cells before them are in
\* non-decreasing order, and the multiset of the values that are not NaN,
\* +infinity among them, is the multiset at entry.
C5_Theorem ==
    (call.op = "avx512_qsort" /\ call.isfloat) =>
        /\ pc # "fault"
        /\ pc = "done" =>
             /\ NaNCount(arr, call.n) = NaNCount(entry.arr, call.n)
             /\ \A i \in 0 .. call.n - 1 :
                   is_a_nan(arr[i]) <=> i >= call.n - NaNCount(entry.arr, call.n)
             /\ NonDecreasing(arr, 0, call.n - NaNCount(entry.arr, call.n))
             /\ \A v \in Values :
                   Count(arr, 0, call.n, v) = Count(entry.arr, 0, call.n, v)

\* a finished sort of an array of MaxF cells that held a NaN in front of a
\* smaller value next to +infinity and a least value
C5_Witness ==
    /\ call.op = "avx512_qsort" /\ call.isfloat /\ pc = "done"
    /\ call.n = MaxF
    /\ NaNCount(entry.arr, call.n) = 1
    /\ is_a_nan(entry.arr[0])
    /\ Count(entry.arr, 0, call.n, type_max) >= 1
    /\ Count(entry.arr, 0, call.n, type_min) >= 1
    /\ ~is_a_nan(arr[0]) /\ is_a_nan(arr[call.n - 1])
    /\ arr[call.n - 2] = type_max

\* C6: avx512_qselect(A, k, N, hasnan = true) on a floating-point array,
\* N >= 1, k < N, any number of NaNs up to N: the NaNs are left in the
\* suffix and the driver is invoked on a range that lies inside A[0..N) and
\* ends at the last element that is not NaN; on return A[k] is the k-th
\* order statistic of the entry array with NaN the greatest value.
C6_Claim ==
    (call.op = "avx512_qselect" /\ call.isfloat /\ call.hasnan) =>
        /\ pc # "fault"
        /\ \A i \in DOMAIN stack :
              /\ stack[i].left <= stack[i].right
              /\ stack[i].right < call.n
              /\ stack[i].depth = 1 =>
                    /\ ~is_a_nan(arr[stack[i].right])
                    /\ \A j \in stack[i].right + 1 .. call.n - 1 : is_a_nan(arr[j])
        /\ pc = "done" =>
              OrderStatistic(entry.arr, call.n, call.k, arr[call.k])

\* C7: the key-index partition_avx512 returns p such that every key in
\* [left, p) is < P and every key in [p, right) is >= P, keys equal to P on
\* the right side, the keys handled by the scalar loop included.
C7_Claim ==
    (call.op = "partition_avx512_kv" /\ pc = "done") =>
        /\ call.left <= part.ret /\ part.ret <= call.right
        /\ \A i \in call.left .. part.ret - 1 : arr[i] < call.pivot
        /\ \A i \in part.ret .. call.right - 1 : arr[i] >= call.pivot

PairCount(keys, idx, lo, hi, key, index) ==
    Cardinality({j \in lo .. hi - 1 : keys[j] = key /\ idx[j] = index})

SamePairs(keys, idx, keys0, idx0, lo, hi) ==
    \A key \in Values, index \in 0 .. MaxLen - 1 :
        PairCount(keys, idx, lo, hi, key, index)
            = PairCount(keys0, idx0, lo, hi, key, index)

\* C8: the key-index partition moves each index together with its key: the
\* multiset of pairs (keys[i], indexes[i]) over [left, right) after the call
\* is the multiset at entry, and no cell of either array outside
\* [left, right) is changed.
C8_Theorem ==
    call.op = "partition_avx512_kv" =>
        /\ pc # "fault"
        /\ \A i \in DOMAIN arr :
              (i < call.left \/ i >= call.right) =>
                  arr[i] = entry.arr[i] /\ indexes[i] = entry.indexes[i]
        /\ pc = "done" =>
              SamePairs(arr, indexes, entry.arr, entry.indexes,
                        call.left, call.right)

\* a finished call on a range of odd length that went through the scalar
\* loop, the main loop and the final stores, and moved pairs of keys below,
\* equal to and above the pivot
C8_Witness ==
    /\ call.op = "partition_avx512_kv" /\ pc = "done"
    /\ call.right - call.left = MaxLen - 1
    /\ trace.steps >= 3
    /\ \E i, j, k \in call.left .. call.right - 1 :
         /\ entry.arr[i] < call.pivot
         /\ entry.arr[j] = call.pivot
         /\ entry.arr[k] > call.pivot
    /\ indexes # entry.indexes
    /\ \E i \in call.left .. call.right - 1 :
          indexes[i] # i /\ arr[i] = entry.arr[indexes[i]]

\* the steps an entry point still has ahead of it, by its position
PhaseRank ==
    CASE pc = "call" -> 3
      [] pc = "qselect_" -> 2
      [] pc = "qsort_" -> 1
      [] OTHER -> 0

\* a bound on the invocations that a pending invocation can still cause: it
\* returns at once in the scalar fallback and in the base case, and
\* otherwise calls on disjoint parts of its range with one less of budget
Work(f) ==
    LET size == Wrap(f.right + 1 - f.left)
    IN  IF f.max_iters > 0 /\ size > network_sort_threshold
        THEN 1 + 2 * size * f.max_iters
        ELSE 1

RECURSIVE WorkLeft(_)
WorkLeft(s) == IF s = << >> THEN 0 ELSE Work(Head(s)) + WorkLeft(Tail(s))

Progress ==
    \/ PhaseRank' < PhaseRank
    \/ PhaseRank' = PhaseRank /\ WorkLeft(stack') < WorkLeft(stack)

DepthWithinBudget ==
    \A i \in DOMAIN stack :
        /\ stack[i].depth <= trace.budget + 1
        /\ stack[i].max_iters = trace.budget + 1 - stack[i].depth

\* C9: every call of avx512_qsort and avx512_qselect terminates, for every
\* input and every pivot of the subrange: every step of a call lowers a
\* natural-valued measure of the work left, and an invocation at recursion
\* depth d holds the entry budget minus d - 1, so the depth never exceeds
\* the entry budget plus one.
C9_Theorem == [][Progress /\ DepthWithinBudget']_vars

\* an invocation that has used up the whole budget: recursion depth of the
\* entry budget plus one, the scalar fallback next
C9_Witness ==
    /\ pc \in {"qsort_", "qselect_"} /\ stack # << >>
    /\ trace.budget >= 4
    /\ Top.max_iters = 0 /\ Top.depth = trace.budget + 1
    /\ Wrap(Top.right + 1 - Top.left) > network_sort_threshold

-----------------------------------------------------------------------------
RangeMin(a, lo, hi) ==
    CHOOSE v \in {a[i] : i \in lo .. hi - 1} : \A i \in lo .. hi - 1 : v <= a[i]

RangeMax(a, lo, hi) ==
    CHOOSE v \in {a[i] : i \in lo .. hi - 1} : \A i \in lo .. hi - 1 : v >= a[i]

\* C11: for every nonempty subrange and every pivot, partition_avx512 called
\* with *smallest = type_max and *biggest = type_min returns with *smallest
\* the minimum and *biggest the maximum of the subrange, on every return
\* path.
C11_Claim ==
    (call.op = "partition_avx512" /\ pc = "done" /\ call.left < call.right) =>
        /\ part.smallest = RangeMin(entry.arr, call.left, call.right)
        /\ part.biggest = RangeMax(entry.arr, call.left, call.right)

\* C12: for every unroll factor U >= 1, every subrange of any length and
\* every pivot, partition_avx512_unrolled has the contract of
\* partition_avx512: it returns the same index p, leaves [left, p) < P and
\* [p, right) >= P as a permutation of the entry subrange, sets *smallest
\* and *biggest to the extremes, and loads and stores only inside
\* [left, right).
C12_Claim ==
    call.op = "partition_avx512_unrolled" =>
        /\ pc # "fault"
        /\ part.touched \subseteq call.left .. call.right - 1
        /\ pc = "done" =>
             /\ part.ret = partition_avx512(entry.arr, call.left, call.right,
                                            call.pivot, type_max, type_min).ret
             /\ \A i \in call.left .. part.ret - 1 : arr[i] < call.pivot
             /\ \A i \in part.ret .. call.right - 1 : arr[i] >= call.pivot
             /\ SameMultiset(arr, entry.arr, call.left, call.right)
             /\ call.left < call.right =>
                   /\ part.smallest = RangeMin(entry.arr, call.left, call.right)
                   /\ part.biggest = RangeMax(entry.arr, call.left, call.right)

\* C13: during partition_avx512 on [left, right) no cell outside
\* [left, right) is read or written, and every cell outside [left, right)
\* holds its entry value: a compressed store of m active lanes writes m
\* cells, all inside the subrange.
C13_Theorem ==
    call.op = "partition_avx512" =>
        /\ pc # "fault"
        /\ part.touched \subseteq call.left .. call.right - 1
        /\ SameOutside(arr, entry.arr, call.left, call.right)

\* a finished call on a range with cells of the block on both sides of it,
\* that went through the main loop and accessed every cell of the range,
\* next to cells that differ from the cells at the ends of the range
C13_Witness ==
    /\ call.op = "partition_avx512" /\ pc = "done"
    /\ call.left = 1 /\ call.right = MaxLen - 1
    /\ trace.steps >= 3
    /\ part.touched = call.left .. call.right - 1
    /\ arr # entry.arr
    /\ arr[0] # arr[1] /\ arr[MaxLen - 1] # arr[MaxLen - 2]

-----------------------------------------------------------------------------
\* the invocations a step of the running invocation has made
NewCalls == {stack'[i] : i \in 1 .. Len(stack') - Len(stack) + 1}

\* [f.left, f.right] is a proper sub-interval of [g.left, g.right]
ProperSubrange(f, g) ==
    /\ g.left <= f.left /\ f.left <= f.right /\ f.right <= g.right
    /\ f.right - f.left < g.right - g.left

\* C14: every recursive call made by qsort_ is on a subrange strictly
\* shorter than the caller's: the callee's [left, right] is a proper
\* sub-interval of the caller's, for the left call and for the right call
\* and for every pivot of the subrange.
C14_Claim ==
    [][(call.op = "avx512_qsort" /\ pc = "qsort_" /\ pc' = "qsort_"
            /\ stack # << >>)
          => \A f \in NewCalls : ProperSubrange(f, Top)]_vars

\* C15: every invocation of qsort_ and qselect_, the one made by
\* avx512_qsort / avx512_qselect on an integer array with N >= 2 and k < N
\* and every recursive one, receives a subrange with
\* 0 <= left <= right < N; the right bound pivot_index - 1 of a left call is
\* never below left.
C15_Theorem ==
    (call.op \in {"avx512_qsort", "avx512_qselect"} /\ ~call.isfloat
        /\ call.n >= 2) =>
        \A i \in DOMAIN stack :
            /\ 0 <= stack[i].left
            /\ stack[i].left <= stack[i].right
            /\ stack[i].right < call.n

\* a left call on the one cell below pivot_index = left + 1, its right call
\* pending behind it
C15_Witness ==
    /\ call.op = "avx512_qsort" /\ ~call.isfloat /\ pc = "qsort_"
    /\ call.n = MaxN
    /\ Len(stack) = 2
    /\ stack[1].depth = 2 /\ stack[1].left = 0 /\ stack[1].right = 0
    /\ stack[2].depth = 2 /\ stack[2].left = 1 /\ stack[2].right = call.n - 1

\* C16: the depth budget handed to the recursion driver at entry is
\* 2*floor(log2(N)), N the number of elements of the array, for
\* avx512_qsort(A, N) and for avx512_qselect(A, k, N), and every recursive
\* call receives its caller's budget minus one.
C16_Claim ==
    (call.op \in {"avx512_qsort", "avx512_qselect"} /\ ~call.isfloat) =>
        \A i \in DOMAIN stack :
            stack[i].max_iters
                = 2 * floor_log2(call.n) - (stack[i].depth - 1)

-----------------------------------------------------------------------------
\* the kernel state after the scalar loop of the call: its left and right
\* are the bounds the main loop works between
Aligned ==
    align(KernelInit(entry.arr, call.left, call.right, call.pivot,
                     type_max, type_min),
          Wrap(call.right - call.left) % numlanes)

\* a boundary of the main loop that a partition_vec step has led to
AfterStep ==
    call.op = "partition_avx512" /\ pc = "loop" /\ trace.steps >= 2

\* C17 as stated: after each partition_vec step of the main loop of
\* partition_avx512, every element of A[original_left .. l_store) is < P
\* and every element of A[l_store + unpartitioned .. original_right) is
\* >= P.
C17_Claim ==
    AfterStep =>
        /\ \A i \in Aligned.left .. part.l_store - 1 : arr[i] < call.pivot
        /\ \A i \in part.l_store + part.unpartitioned .. Aligned.right - 1 :
              arr[i] >= call.pivot

\* C17, amended: at every boundary of the main loop of partition_avx512,
\* every element of A[original_left .. l_store) is < P and every element of
\* A[l_store + unpartitioned + numlanes .. original_right) is >= P; the
\* numlanes cells from l_store + unpartitioned on are not yet partitioned.
C17_Theorem ==
    (call.op = "partition_avx512" /\ pc = "loop") =>
        /\ \A i \in Aligned.left .. part.l_store - 1 : arr[i] < call.pivot
        /\ \A i \in part.l_store + part.unpartitioned + numlanes
                        .. Aligned.right - 1 :
              arr[i] >= call.pivot

\* a boundary after a partition_vec step with elements stored on both
\* sides, where the cell at l_store + unpartitioned is below the pivot
C17_Witness ==
    /\ AfterStep
    /\ part.l_store > Aligned.left
    /\ part.l_store + part.unpartitioned + numlanes < Aligned.right
    /\ arr[part.l_store + part.unpartitioned] < call.pivot

\* the main loop has been left and vec_left and vec_right are next
BeforeFlush ==
    call.op = "partition_avx512" /\ pc = "loop"
        /\ Wrap(part.right - part.left) = 0

\* the call has returned after partitioning vec_left and vec_right
AfterFlush ==
    call.op = "partition_avx512" /\ pc = "done"
        /\ Wrap(Aligned.right - Aligned.left) > numlanes

\* C18 as stated: unpartitioned is a nonnegative multiple of lanes after
\* every partition_vec step of the main loop of partition_avx512, is exactly
\* 0 once vec_left and vec_right have both been partitioned, is never
\* decremented below 0, and l_store at that point is the returned index.
C18_Claim ==
    /\ AfterStep => part.unpartitioned % numlanes = 0
    /\ call.op = "partition_avx512" => ~part.wrapped
    /\ AfterFlush => part.unpartitioned = 0 /\ part.ret = part.l_store

\* C18, amended: unpartitioned is a multiple of lanes, and at least lanes,
\* at every boundary of the main loop; it is lanes when the loop is left
\* and 0 once vec_left has been partitioned; the partition_vec of vec_right
\* stores with unpartitioned = 0 and its decrement wraps the arrsize_t
\* counter to 2^w - lanes, a value that is not read again; l_store at that
\* point is the returned index.
C18_Theorem ==
    /\ (call.op = "partition_avx512" /\ pc = "loop") =>
          /\ part.unpartitioned % numlanes = 0
          /\ part.unpartitioned >= numlanes
          /\ part.unpartitioned = Wrap(part.right - part.left) + numlanes
          /\ ~part.wrapped
    /\ BeforeFlush =>
          /\ part.unpartitioned = numlanes
          /\ partition_vec(part, part.vec_left).unpartitioned = 0
          /\ ~partition_vec(part, part.vec_left).wrapped
    /\ AfterFlush =>
          /\ part.wrapped
          /\ part.unpartitioned = ArrsizeMod - numlanes
          /\ part.ret = part.l_store

\* a call that has returned after main-loop steps and the partitioning of
\* vec_left and vec_right, the counter wrapped
C18_Witness ==
    /\ AfterFlush
    /\ trace.steps >= 4
    /\ part.wrapped
    /\ part.unpartitioned = ArrsizeMod - numlanes
    /\ part.ret > call.left /\ part.ret < call.right

-----------------------------------------------------------------------------
\* a pass of the main loop is next
InLoop ==
    call.op = "partition_avx512" /\ pc = "loop"
        /\ Wrap(part.right - part.left) # 0

\* the register the next pass of the main loop loads
NextVec ==
    IF load_from_right(part) THEN loadu(arr, part.right - numlanes)
    ELSE loadu(arr, part.left)

\* the free slots on the two sides once that register has been loaded
FreeLeft ==
    (IF load_from_right(part) THEN part.left ELSE part.left + numlanes)
        - part.l_store

FreeRight ==
    part.l_store + part.unpartitioned + numlanes
        - (IF load_from_right(part) THEN part.right - numlanes ELSE part.right)

\* C19: in the main loop of partition_avx512 side selection guarantees that
\* at every partition_vec step the free slots on the left are at least the
\* number of lanes < P and the free slots on the right at least the number
\* of lanes >= P, so no compressed store overwrites an element that is not
\* yet loaded; the subrange after the call is a permutation of the subrange
\* at entry.
C19_Theorem ==
    /\ InLoop =>
          /\ Len(Lanes_lt(NextVec, call.pivot)) <= FreeLeft
          /\ Len(Lanes_ge(NextVec, call.pivot)) <= FreeRight
          /\ part.l_store + FreeLeft
                <= part.l_store + part.unpartitioned + numlanes - FreeRight
    /\ (call.op = "partition_avx512" /\ pc = "done") =>
          SameMultiset(arr, entry.arr, call.left, call.right)

\* a pass of the main loop that loads from the right, where no slot was
\* free, a register whose lanes are all >= P
C19_Witness ==
    /\ InLoop
    /\ trace.steps >= 2
    /\ load_from_right(part)
    /\ FreeRight = numlanes
    /\ Len(Lanes_ge(NextVec, call.pivot)) = numlanes
    /\ \E i \in call.left .. call.right - 1 : entry.arr[i] < call.pivot

-----------------------------------------------------------------------------
\* the positions left + i*floor((right - left)/lanes), i = first .. last
Strided(first, last) ==
    [i \in 1 .. last - first + 1 |->
        call.left + (first + i - 1) * ((call.right - call.left) \div call.lanes)]

\* the pivot is element lanes/2 of the ascending samples and a value of
\* A[left..right]
UpperMiddle ==
    /\ \A i \in DOMAIN part.samples :
          call.left <= part.samples[i] /\ part.samples[i] <= call.right
    /\ part.pivot
          = sort_vec([i \in DOMAIN part.samples |-> arr[part.samples[i]]])
                [(call.lanes \div 2) + 1]
    /\ \E i \in call.left .. call.right : arr[i] = part.pivot

\* C20 as stated: for lanes in {8, 16, 32} and right - left >= lanes,
\* get_pivot samples the positions left + i*floor((right-left)/lanes),
\* i = 1..lanes, all in [left, right], and returns the element at index
\* lanes/2 of the ascending samples, a value present in A[left..right].
C20_Claim ==
    (call.op = "get_pivot" /\ pc = "done") =>
        /\ part.samples = Strided(1, call.lanes)
        /\ UpperMiddle

\* C20, amended: for 8 and 16 lanes get_pivot samples the positions
\* left + i*floor((right-left)/lanes), i = 1..lanes, and for 32 lanes the
\* positions i = 0..31; all lie in [left, right], and the pivot is the
\* element at index lanes/2 of the ascending samples, a value present in
\* A[left..right].
C20_Theorem ==
    (call.op = "get_pivot" /\ pc = "done") =>
        /\ part.samples = IF call.lanes = 32 THEN Strided(0, 31)
                          ELSE Strided(1, call.lanes)
        /\ UpperMiddle

\* a call for 8 lanes with a stride of more than one cell that sampled the
\* cell at right and whose two middle samples differ
C20_Witness ==
    /\ call.op = "get_pivot" /\ pc = "done"
    /\ call.lanes = 8
    /\ (call.right - call.left) \div call.lanes >= 2
    /\ part.samples[8] = call.right
    /\ sort_vec([i \in 1 .. 8 |-> arr[part.samples[i]]])[4] < part.pivot

====
